---------------------------- MODULE Spec2Model ----------------------------
(***************************************************************************)
(* A model of the NL2SQL pipeline of src/src/core/free_chat.py:            *)
(* PGManager (store access), VectorStore (embedding index), LLMProvider    *)
(* (chat completions) and NL2SQLPipeline (ask, _create_data_summary).      *)
(*                                                                         *)
(* Conventions.  Python lists are sequences; Python index i is index i+1   *)
(* here.  A TableSchema is represented by its name: get_all_schemas makes  *)
(* ddl and description functions of the table name.  A text that the code  *)
(* inspects (the SQL reply, the decomposition reply) is a sequence of      *)
(* tokens or lines.  None is the string NoneValue where the other values   *)
(* of the field are strings, and a tagged record otherwise.  An operation  *)
(* that ends in an unhandled exception returns a record with raised=TRUE.  *)
(***************************************************************************)
EXTENDS Integers, Sequences, FiniteSets, TLC

VARIABLES
    \* ---- VectorStore (free_chat.py:488-489)
    schemas,            \* self.schemas: sequence of table names
    schema_embeddings,  \* self.schema_embeddings: None or the matrix rows
    vs_call,            \* the last call made on the VectorStore, the list of
                        \* dimensions it parsed, and its outcome
    \* ---- the store behind PGManager
    db,                 \* committed rows of the store: set of primary keys
    last_conn,          \* status of the most recently opened connection when
                        \* the latest execute_sql began and when it returned
    \* ---- NL2SQLPipeline (free_chat.py:649-661)
    pipeline,           \* how the construction of the pipeline went
    \* ---- one ask request (free_chat.py:663-755)
    pc,                 \* position of the request
    calls,              \* the external calls the request has made, in order
    question,
    relevant_schemas,
    sql_query,
    query_result,
    answer_prompt,      \* the prompt sent for answer generation, if any
    response,           \* the dict returned by ask
    \* ---- _create_data_summary called on its own (free_chat.py:757-781)
    sum_data,
    summary,
    \* ---- concurrent ask calls on one pipeline (free_chat.py:546-589)
    requests,           \* per request: the locals of its retrieval
    \* ---- the store as PGManager._init_database sees it (free_chat.py:147-173)
    pg_catalog,         \* the committed tables and their sample rows
    init_call,          \* the last call of _init_database and its outcome
    \* ---- ErrorRecordManager (error_records_new.py:43-117)
    study_detail,       \* the committed rows of study_detail
    save_call,          \* the last call of save_individual_errors
    \* ---- analyze_with_qwen_openai (mcp_client.py:16-149)
    mcp                 \* the position, the locals and the message history

vsVars   == <<schemas, schema_embeddings, vs_call>>
dbVars   == <<db, last_conn>>
askVars  == <<pipeline, pc, calls, question, relevant_schemas, sql_query,
              query_result, answer_prompt, response>>
sumVars  == <<sum_data, summary>>
conVars  == <<requests>>
initVars == <<pg_catalog, init_call>>
errVars  == <<study_detail, save_call>>
mcpVars  == <<mcp>>
otherVars == <<conVars, initVars, errVars, mcpVars>>
vars     == <<vsVars, dbVars, askVars, sumVars, otherVars>>

NoneValue == "<None>"

-----------------------------------------------------------------------------
(* Bounds of the model.                                                    *)
MaxK     == 2   \* top_k ranges over 0..MaxK
MaxLines == 2   \* a decomposition reply has at most MaxLines lines

-----------------------------------------------------------------------------
(* Generic sequence helpers.                                               *)

Range(s) == {s[i] : i \in 1..Len(s)}

Reverse(s) == [i \in 1..Len(s) |-> s[Len(s) + 1 - i]]

Min(a, b) == IF a <= b THEN a ELSE b

NoDuplicates(s) == \A i, j \in 1..Len(s) : s[i] = s[j] => i = j

\* All sequences over S of length at most n.
SeqsUpTo(S, n) == UNION {[1..m -> S] : m \in 0..n}

\* All sequences over S without a repeated element.
DistinctSeqs(S) == {s \in SeqsUpTo(S, Cardinality(S)) : NoDuplicates(s)}

-----------------------------------------------------------------------------
(* The embedding service and the index.                                    *)

\* The base tables of the public schema (_create_educational_schema).
Tables == {"students", "study_detail", "summary"}

\* The query strings embedded by the retrieval operations.
Queries == {"students", "error", "grade"}

\* The document embedded for a schema (build_embeddings, line 520).
SchemaText(name) ==
    CASE name = "students"     -> "Table: students"
      [] name = "study_detail" -> "Table: study_detail"
      [] name = "summary"      -> "Table: summary"

\* The embedding service: one vector per text, the same text always giving
\* the same vector.  Vectors are not normalised.
Embedding(text) ==
    CASE text = "Table: students"     -> <<2, 0>>
      [] text = "Table: study_detail" -> <<1, 1>>
      [] text = "Table: summary"      -> <<0, 1>>
      [] text = "students"            -> <<2, 0>>
      [] text = "error"               -> <<1, 1>>
      [] text = "grade"               -> <<-1, 0>>
      [] text = "Error: LLM call failed." -> <<1, 2>>

\* VectorStore.get_embeddings: one row per text, in order.
get_embeddings(texts) == [i \in 1..Len(texts) |-> Embedding(texts[i])]

NoEmbeddings == [isNone |-> TRUE, rows |-> <<>>]
EmbeddingMatrix(rows) == [isNone |-> FALSE, rows |-> rows]

Dot(a, b) == a[1] * b[1] + a[2] * b[2]

SgnSq(x) == IF x < 0 THEN -(x * x) ELSE x * x

\* cos(q, a) < cos(q, b), decided exactly: cos(q, v) = q.v / (|q| |v|), and
\* x |-> sgn(x) x^2 is increasing, so the comparison is one of
\* sgn(q.a)(q.a)^2 |b|^2 with sgn(q.b)(q.b)^2 |a|^2.
CosLess(q, a, b) == SgnSq(Dot(q, a)) * Dot(b, b) < SgnSq(Dot(q, b)) * Dot(a, a)

CosEq(q, a, b) == SgnSq(Dot(q, a)) * Dot(b, b) = SgnSq(Dot(q, b)) * Dot(a, a)

\* sklearn's cosine_similarity(X, Y)[0] for the single row q of X: one entry
\* per row of Y, and Y = X when Y is None.  The entries are kept as the
\* rows they are computed from; CosLess/CosEq compare them.
cosine_similarity(q, emb) == IF emb.isNone THEN <<q>> ELSE emb.rows

\* np.argsort: the indices in ascending order of similarity, equal entries
\* in index order (arrays of fewer than 17 elements are insertion-sorted).
ArgSortRank(q, sims, i) ==
    1 + Cardinality({j \in 1..Len(sims) :
            \/ CosLess(q, sims[j], sims[i])
            \/ CosEq(q, sims[j], sims[i]) /\ j < i})

argsort(q, sims) ==
    LET rank == [i \in 1..Len(sims) |-> ArgSortRank(q, sims, i)]
    IN  [r \in 1..Len(sims) |-> CHOOSE i \in 1..Len(sims) : rank[i] = r]

\* The Python slice s[-k:].
SliceLast(s, k) ==
    LET n == Len(s)
    IN  IF k = 0 THEN s
        ELSE IF k > 0 THEN SubSeq(s, n - Min(k, n) + 1, n)
        ELSE SubSeq(s, Min(-k, n) + 1, n)

\* np.argsort(similarities)[-k:][::-1] with k = min(top_k, len(self.schemas)).
TopIndices(q, sims, top_k, n_schemas) ==
    Reverse(SliceLast(argsort(q, sims), Min(top_k, n_schemas)))

Returned(v) == [raised |-> FALSE, value |-> v]
Raised      == [raised |-> TRUE,  value |-> <<>>]

\* [self.schemas[i] for i in top_indices]: IndexError when an index is
\* beyond the schema list.
SelectSchemas(schs, idx) ==
    IF \E p \in 1..Len(idx) : idx[p] > Len(schs)
    THEN Raised
    ELSE Returned([p \in 1..Len(idx) |-> schs[idx[p]]])

\* VectorStore.retrieve_relevant_schemas.
retrieve_relevant_schemas(schs, emb, query, top_k) ==
    IF emb.isNone \/ schs = <<>>
    THEN Returned(<<>>)
    ELSE LET q    == get_embeddings(<<query>>)[1]
             sims == cosine_similarity(q, emb)
         IN  SelectSchemas(schs, TopIndices(q, sims, top_k, Len(schs)))

\* A variant of the inner loop without the test of line 583.
AppendAll(acc, names) == acc \o names

\* The inner loop of multi_path_retrieve_schemas (lines 581-586): append the
\* schemas of one dimension that were not seen before.
AppendUnseen(acc, names) ==
    LET F[p \in 0..Len(names)] ==
            IF p = 0 THEN acc
            ELSE LET prev == F[p - 1]
                 IN  IF names[p] \in Range(prev) THEN prev
                     ELSE Append(prev, names[p])
    IN  F[Len(names)]

\* The loop over the dimensions (lines 569-589).  No test of the index
\* state precedes it.
MultiPathLoop(schs, emb, dimensions, top_k_per_path) ==
    LET F[d \in 0..Len(dimensions)] ==
            IF d = 0 THEN Returned(<<>>)
            ELSE LET prev == F[d - 1]
                     q    == get_embeddings(<<dimensions[d]>>)[1]
                     sims == cosine_similarity(q, emb)
                     sel  == SelectSchemas(schs,
                                TopIndices(q, sims, top_k_per_path, Len(schs)))
                 IN  IF prev.raised \/ sel.raised THEN Raised
                     ELSE Returned(AppendUnseen(prev.value, sel.value))
    IN  F[Len(dimensions)]

-----------------------------------------------------------------------------
(* The decomposition reply (multi_path_retrieve_schemas, lines 563-566).   *)

\* The lines a reply of the language model is made of.
ReplyLines == {"students", " error ", "grade", ""}

\* str.strip() of a line.
Strip(line) ==
    CASE line = " error " -> "error"
      [] OTHER            -> line

\* A variant of the parsing that also drops a dimension seen before.
ParseDimensionsOnce(lines) ==
    LET F[p \in 0..Len(lines)] ==
            IF p = 0 THEN <<>>
            ELSE LET prev == F[p - 1]
                     dim  == Strip(lines[p])
                 IN  IF dim = "" \/ dim \in Range(prev) THEN prev
                     ELSE Append(prev, dim)
    IN  F[Len(lines)]

\* [dim.strip() for dim in dimensions_text.split('\n') if dim.strip()]
ParseDimensions(lines) ==
    LET F[p \in 0..Len(lines)] ==
            IF p = 0 THEN <<>>
            ELSE LET prev == F[p - 1]
                     dim  == Strip(lines[p])
                 IN  IF dim = "" THEN prev ELSE Append(prev, dim)
    IN  F[Len(lines)]

DecompositionReplies == SeqsUpTo(ReplyLines, MaxLines)

\* VectorStore.multi_path_retrieve_schemas, given the model's reply.
multi_path_retrieve_schemas(schs, emb, reply, top_k_per_path) ==
    MultiPathLoop(schs, emb, ParseDimensions(reply), top_k_per_path)

-----------------------------------------------------------------------------
(* Operations on a VectorStore.                                            *)

TopKs == 0..MaxK

\* The lists get_all_schemas can produce: table names are unique.
SchemaLists == DistinctSeqs(Tables)

NoCall == [op |-> "none", arg |-> <<>>, top_k |-> 0, dimensions |-> <<>>,
           result |-> Returned(<<>>)]

\* VectorStore.build_embeddings(schemas_in); fails is whether the embedding
\* service raises during get_embeddings.
build_embeddings(schemas_in, fails) ==
    /\ schemas' = schemas_in
    /\ IF schemas_in = <<>>
       THEN /\ schema_embeddings' = schema_embeddings
            /\ vs_call' = [op |-> "build", arg |-> schemas_in, top_k |-> 0,
                           dimensions |-> <<>>,
                           result |-> Returned(<<>>)]
       ELSE IF fails
       THEN /\ schema_embeddings' = schema_embeddings
            /\ vs_call' = [op |-> "build", arg |-> schemas_in, top_k |-> 0,
                           dimensions |-> <<>>,
                           result |-> Raised]
       ELSE /\ schema_embeddings' = EmbeddingMatrix(get_embeddings(
                    [i \in 1..Len(schemas_in) |-> SchemaText(schemas_in[i])]))
            /\ vs_call' = [op |-> "build", arg |-> schemas_in, top_k |-> 0,
                           dimensions |-> <<>>,
                           result |-> Returned(<<>>)]

\* The caller is sequential: a call is made when the previous one has
\* returned (or raised) and its outcome has been taken by the caller.
Build ==
    \E schemas_in \in SchemaLists, fails \in BOOLEAN :
        /\ vs_call = NoCall
        /\ build_embeddings(schemas_in, fails)
        /\ UNCHANGED <<dbVars, askVars, sumVars, otherVars>>

Retrieve ==
    \E query \in Queries, top_k \in TopKs :
        /\ vs_call = NoCall
        /\ vs_call' = [op |-> "retrieve", arg |-> <<query>>, top_k |-> top_k,
                       dimensions |-> <<>>,
                       result |-> retrieve_relevant_schemas(
                                      schemas, schema_embeddings, query, top_k)]
        /\ UNCHANGED <<schemas, schema_embeddings, dbVars, askVars, sumVars, otherVars>>

MultiPathRetrieve ==
    \E reply \in DecompositionReplies, top_k \in TopKs :
        /\ vs_call = NoCall
        /\ vs_call' = [op |-> "multi", arg |-> reply, top_k |-> top_k,
                       dimensions |-> ParseDimensions(reply),
                       result |-> multi_path_retrieve_schemas(
                                      schemas, schema_embeddings, reply, top_k)]
        /\ UNCHANGED <<schemas, schema_embeddings, dbVars, askVars, sumVars, otherVars>>

\* The outcome of the call is handed to the caller (the return statements
\* of lines 516, 525, 531, 544, 589, or the exception leaving the method).
VSReturn ==
    /\ vs_call # NoCall
    /\ vs_call' = NoCall
    /\ UNCHANGED <<schemas, schema_embeddings, dbVars, askVars, sumVars, otherVars>>

-----------------------------------------------------------------------------
(* Texts as token sequences.                                               *)

RemoveAll(tokens, t) == SelectSeq(tokens, LAMBDA x : x # t)

IsSpace(t) == t = " "

\* str.strip(): drop the whitespace at both ends.
StripTokens(tokens) ==
    LET n     == Len(tokens)
        first == IF \A i \in 1..n : IsSpace(tokens[i]) THEN n + 1
                 ELSE CHOOSE i \in 1..n :
                        /\ ~IsSpace(tokens[i])
                        /\ \A j \in 1..(i - 1) : IsSpace(tokens[j])
        last  == IF first > n THEN n
                 ELSE CHOOSE i \in 1..n :
                        /\ ~IsSpace(tokens[i])
                        /\ \A j \in (i + 1)..n : IsSpace(tokens[j])
    IN  SubSeq(tokens, first, last)

\* str.startswith(marker), the marker being one token.
StartsWith(tokens, t) == Len(tokens) > 0 /\ tokens[1] = t

InsufficientMarker == "SCHEMA_INSUFFICIENT:"

\* What LLMProvider._call_llm returns when the API call raises (line 629).
LLMErrorText == "Error: LLM call failed."

\* The code-fence markers of a reply (three backquotes, with and without
\* the language tag), written with apostrophes.
FenceSql == "'''sql"
Fence    == "'''"

\* LLMProvider.generate_sql: the reply with the code fences removed, stripped.
generate_sql(raw) == StripTokens(RemoveAll(RemoveAll(raw, FenceSql), Fence))

\* LLMProvider.generate_answer: the reply, stripped.
generate_answer(raw) == StripTokens(raw)

\* The replies of the language model to the SQL-generation prompt.
SqlReplies == {
    <<"SELECT", "*">>,
    <<FenceSql, "SELECT", "1", Fence>>,
    <<"SELECT", "2">>,
    <<"INSERT", "2">>,
    <<"INSERT", "1">>,
    <<"UPDATE", "1">>,
    <<"DELETE", "1">>,
    <<"INSERT", "2", "RETURNING">>,
    <<"INSERT", "2", ";", "SELEC">>,
    <<"SELEC", "*">>,
    <<"SCHEMA_INSUFFICIENT:", "no phone column">>,
    <<" ", FenceSql, "SCHEMA_INSUFFICIENT:", "no phone column", Fence>>,
    <<"SCHEMA_INSUFFICIENT:">>,
    <<"SCHEMA_INSUFFICIENT:", "see", "SCHEMA_INSUFFICIENT:">>,
    <<"schema_insufficient:", "no phone column">>,
    <<"--", "SCHEMA_INSUFFICIENT:">>,
    <<LLMErrorText>>,
    <<>> }

\* The replies of the language model to the answer-generation prompt.
AnswerReplies == {
    <<"the student has two wrong answers">>,
    <<" ", "the student has two wrong answers", " ">>,
    <<LLMErrorText>>,
    <<>> }

Questions == {"error records of Zhang San", "phone numbers of the students"}

-----------------------------------------------------------------------------
(* The store: one table keyed by student_id.                               *)

Keys == {"1", "2"}
KeyOrder == <<"1", "2">>
Absent == "absent"

\* A cell value with its runtime type name and its text.
IntValue(text) == [type |-> "int", text |-> text]
StrValue(text) == [type |-> "str", text |-> text]

\* dict(row) of a DictCursor row.
RowOf(dbv, k) == [student_id |-> IntValue(k), grade |-> IntValue(dbv[k])]

RowsOf(dbv, ks) ==
    LET present == SelectSeq(KeyOrder, LAMBDA k : k \in ks /\ dbv[k] # Absent)
    IN  [i \in 1..Len(present) |-> RowOf(dbv, present[i])]

StmtOk(work, described, rows) ==
    [error |-> NoneValue, work |-> work, described |-> described, rows |-> rows]
StmtError(work, msg) ==
    [error |-> msg, work |-> work, described |-> FALSE, rows |-> <<>>]

\* The effect of one statement inside the open transaction: the working
\* copy, whether the cursor has a result descriptor, and the rows.
ExecStatement(stmt, work) ==
    IF Len(stmt) = 2 /\ stmt[1] = "SELECT" /\ stmt[2] = "*"
        THEN StmtOk(work, TRUE, RowsOf(work, Keys))
    ELSE IF Len(stmt) = 2 /\ stmt[1] = "SELECT" /\ stmt[2] \in Keys
        THEN StmtOk(work, TRUE, RowsOf(work, {stmt[2]}))
    ELSE IF Len(stmt) \in {2, 3} /\ stmt[1] = "INSERT" /\ stmt[2] \in Keys
            /\ (Len(stmt) = 3 => stmt[3] = "RETURNING")
        THEN IF work[stmt[2]] # Absent
             THEN StmtError(work, "duplicate key value violates unique constraint")
             ELSE LET w == [work EXCEPT ![stmt[2]] = "7"]
                  IN  IF Len(stmt) = 3
                      THEN StmtOk(w, TRUE, RowsOf(w, {stmt[2]}))
                      ELSE StmtOk(w, FALSE, <<>>)
    ELSE IF Len(stmt) = 2 /\ stmt[1] = "UPDATE" /\ stmt[2] \in Keys
        THEN StmtOk(IF work[stmt[2]] = Absent THEN work
                    ELSE [work EXCEPT ![stmt[2]] = "8"], FALSE, <<>>)
    ELSE IF Len(stmt) = 2 /\ stmt[1] = "DELETE" /\ stmt[2] \in Keys
        THEN StmtOk([work EXCEPT ![stmt[2]] = Absent], FALSE, <<>>)
    ELSE StmtError(work, "syntax error")

\* cursor.execute(sql): the statements of the text, separated by ";", run
\* in order in one transaction up to the first error; the descriptor and
\* the rows are those of the last statement.
CursorExecute(sql, dbv) ==
    LET n == Len(sql)
        \* F[p]: the outcome after the tokens 1..p, with the statement
        \* being read.
        F[p \in 0..n] ==
            IF p = 0 THEN [out |-> StmtOk(dbv, FALSE, <<>>), cur |-> <<>>]
            ELSE LET prev == F[p - 1]
                 IN  IF prev.out.error # NoneValue THEN prev
                     ELSE IF sql[p] = ";"
                     THEN [out |-> ExecStatement(prev.cur, prev.out.work),
                           cur |-> <<>>]
                     ELSE IF p = n
                     THEN [out |-> ExecStatement(Append(prev.cur, sql[p]),
                                                 prev.out.work),
                           cur |-> <<>>]
                     ELSE [out |-> prev.out, cur |-> Append(prev.cur, sql[p])]
    IN  IF n = 0 THEN StmtError(dbv, "can't execute an empty query")
        ELSE F[n].out

QueryResult(success, data, sql, error) ==
    [success |-> success, data |-> data, sql |-> sql, error |-> error]

\* Leaving "with self._get_connection() as conn" (line 456): the
\* transaction is committed when the block ends normally and rolled back
\* when an exception leaves it.
ConnectionExit(exception, dbv, work) == IF exception THEN dbv ELSE work

\* The status in which a connection is left by the end of the block.
ConnectionLeft(exception) == IF exception THEN "rolled_back" ELSE "committed"

\* The outcome of a call of execute_sql: what it returns (or that it
\* raised), the committed store after it, and the status in which the
\* connection it used was left.
Executed(qr, dbv, conn) ==
    [raised |-> FALSE, result |-> qr, db |-> dbv, conn |-> conn]

\* A variant of execute_sql in which a failing statement's work survives.
execute_sql_keeping_failed_work(sql, up, dbv, last) ==
    IF ~up
    THEN Executed(QueryResult(FALSE, <<>>, sql, "connection refused"), dbv, last)
    ELSE LET out == CursorExecute(sql, dbv)
         IN  IF out.error # NoneValue
             THEN Executed(QueryResult(FALSE, <<>>, sql, out.error),
                           out.work, "committed")
             ELSE Executed(QueryResult(TRUE, out.rows, sql, NoneValue),
                           out.work, "committed")

\* A variant of execute_sql that never commits.
execute_sql_without_commit(sql, up, dbv, last) ==
    IF ~up
    THEN Executed(QueryResult(FALSE, <<>>, sql, "connection refused"), dbv, last)
    ELSE LET out == CursorExecute(sql, dbv)
         IN  IF out.error # NoneValue
             THEN Executed(QueryResult(FALSE, <<>>, sql, out.error),
                           dbv, "rolled_back")
             ELSE Executed(QueryResult(TRUE, out.rows, sql, NoneValue),
                           dbv, "rolled_back")

\* A variant of execute_sql that keeps one connection for all calls and
\* does not roll back after an error: the connection stays in the aborted
\* transaction, in which every statement is refused.
execute_sql_on_kept_connection(sql, up, dbv, last) ==
    IF ~up
    THEN Executed(QueryResult(FALSE, <<>>, sql, "connection refused"), dbv, last)
    ELSE IF last = "aborted"
    THEN Executed(QueryResult(FALSE, <<>>, sql,
                      "current transaction is aborted"), dbv, "aborted")
    ELSE LET out == CursorExecute(sql, dbv)
         IN  IF out.error # NoneValue
             THEN Executed(QueryResult(FALSE, <<>>, sql, out.error),
                           dbv, "aborted")
             ELSE Executed(QueryResult(TRUE, out.rows, sql, NoneValue),
                           out.work, "committed")

\* A variant of execute_sql that closes its connection before returning.
execute_sql_closing_connection(sql, up, dbv, last) ==
    IF ~up
    THEN Executed(QueryResult(FALSE, <<>>, sql, "connection refused"), dbv, last)
    ELSE LET out == CursorExecute(sql, dbv)
         IN  IF out.error # NoneValue
             THEN Executed(QueryResult(FALSE, <<>>, sql, out.error),
                           dbv, "closed")
             ELSE Executed(QueryResult(TRUE, IF out.described THEN out.rows
                                             ELSE <<>>, sql, NoneValue),
                           out.work, "closed")

\* A variant of execute_sql in which the work of a statement that has a
\* result descriptor is not committed.
execute_sql_rolling_back_described(sql, up, dbv, last) ==
    IF ~up
    THEN Executed(QueryResult(FALSE, <<>>, sql, "connection refused"), dbv, last)
    ELSE LET out == CursorExecute(sql, dbv)
         IN  IF out.error # NoneValue
             THEN Executed(QueryResult(FALSE, <<>>, sql, out.error),
                           dbv, "rolled_back")
             ELSE IF out.described
             THEN Executed(QueryResult(TRUE, out.rows, sql, NoneValue),
                           dbv, "rolled_back")
             ELSE Executed(QueryResult(TRUE, <<>>, sql, NoneValue),
                           out.work, "committed")

\* PGManager.execute_sql(sql) against the committed store dbv; up is
\* whether the store accepts the connection, last the status in which the
\* previous connection was left.  Every call opens a new connection
\* (_get_connection), so last is not consulted; every exception is caught
\* (line 469) and becomes a failed QueryResult.
execute_sql(sql, up, dbv, last) ==
    IF ~up
    THEN Executed(QueryResult(FALSE, <<>>, sql, "connection refused"), dbv, last)
    ELSE LET out == CursorExecute(sql, dbv)
         IN  IF out.error # NoneValue
             THEN Executed(QueryResult(FALSE, <<>>, sql, out.error),
                           ConnectionExit(TRUE, dbv, out.work),
                           ConnectionLeft(TRUE))
             ELSE IF out.described
             THEN Executed(QueryResult(TRUE, out.rows, sql, NoneValue),
                           ConnectionExit(FALSE, dbv, out.work),
                           ConnectionLeft(FALSE))
             ELSE \* conn.commit() of line 466, then the end of the block
                  Executed(QueryResult(TRUE, <<>>, sql, NoneValue),
                           ConnectionExit(FALSE, out.work, out.work),
                           ConnectionLeft(FALSE))

-----------------------------------------------------------------------------
(* NL2SQLPipeline._create_data_summary.                                    *)

\* The column names, in the order sorted() gives them.
ColumnsSorted == <<"grade", "student_id">>
Columns == Range(ColumnsSorted)

\* The fixed texts of the source (Chinese literals, given here in English).
NoDataText         == "no data available"                    \* line 760
DataStructureLabel == "teaching data analysis result"        \* line 777
PrivacyLabel       == "actual data values omitted"           \* line 778
InsufficientText   == "the database structure cannot satisfy the query"  \* 697
NoMatchText        == "query succeeded, no matching data"    \* line 724
QueryFailedText    == "query failed: "                       \* line 735

\* str(n) of a row count.
NatText(n) ==
    CASE n = 0 -> "0" [] n = 1 -> "1" [] n = 2 -> "2" [] n = 3 -> "3"
      [] n = 4 -> "4" [] OTHER -> "5+"

\* all_columns after the loop of lines 765-769.
AllColumns(data) == UNION {DOMAIN data[i] : i \in 1..Len(data)}

\* A variant of column_types in which a later record overwrites the type.
ColumnTypeOfLast(data, col) ==
    LET last == CHOOSE i \in 1..Len(data) :
                    /\ col \in DOMAIN data[i]
                    /\ \A j \in (i + 1)..Len(data) : col \notin DOMAIN data[j]
    IN  data[last][col].type

\* column_types[col] after the loop: set by the first record, in list
\* order, that has the key.
ColumnType(data, col) ==
    LET first == CHOOSE i \in 1..Len(data) :
                    /\ col \in DOMAIN data[i]
                    /\ \A j \in 1..(i - 1) : col \notin DOMAIN data[j]
    IN  data[first][col].type

\* A variant of summary_data that carries the first record's values as a
\* sample.
SummaryDataWithSample(data) ==
    LET cols == SelectSeq(ColumnsSorted, LAMBDA c : c \in DOMAIN data[1])
    IN  [total_records  |-> Len(data),
         columns_info   |-> [i \in 1..Len(cols) |->
                                <<cols[i], data[1][cols[i]].text>>],
         data_structure |-> DataStructureLabel,
         privacy_note   |-> PrivacyLabel]

\* summary_data (lines 771-779).
SummaryData(data) ==
    LET cols == SelectSeq(ColumnsSorted, LAMBDA c : c \in AllColumns(data))
    IN  [total_records  |-> Len(data),
         columns_info   |-> [i \in 1..Len(cols) |->
                                <<cols[i], ColumnType(data, cols[i])>>],
         data_structure |-> DataStructureLabel,
         privacy_note   |-> PrivacyLabel]

\* The flattened column/type pairs of columns_info.
Flatten(pairs) ==
    [i \in 1..(2 * Len(pairs)) |-> pairs[(i + 1) \div 2][2 - (i % 2)]]

\* json.dumps(summary_data): the keys and values in insertion order.
JsonDumps(d) ==
    <<"{", "total_records", NatText(d.total_records), "columns_info", "{">>
    \o Flatten(d.columns_info)
    \o <<"}", "data_structure", d.data_structure,
          "privacy_note", d.privacy_note, "}">>

_create_data_summary(data) ==
    IF data = <<>> THEN <<NoDataText>> ELSE JsonDumps(SummaryData(data))

\* answer_prompt_template.format(...) of lines 727-731.
AnswerPrompt(q, sql, data_summary) ==
    [question |-> q, sql_query |-> sql, data_summary |-> data_summary]

NoPrompt == AnswerPrompt(NoneValue, <<>>, <<>>)

-----------------------------------------------------------------------------
(* NL2SQLPipeline.ask, step by step; the steps end at the external calls.  *)

\* The default of top_k_per_path (line 546), used by ask (line 675).
TopKPerPath == 2

\* sql_query = None in a response.
NoneSql == <<NoneValue>>

NoResult == QueryResult(FALSE, <<>>, <<>>, NoneValue)

\* A measured duration is the set of code segments whose elapsed time it
\* spans; the literal 0 is the empty set.
PerformanceRejected ==
    [retrieval_time         |-> {"retrieval"},
     sql_generation_time    |-> {"sql_generation"},
     execution_time         |-> {},
     answer_generation_time |-> {},
     total_time             |-> {"retrieval", "sql_generation", "other"}]

\* A variant of the performance record in which total_time is taken
\* before the answer stage.
PerformanceExecutedTotalBeforeAnswer ==
    [retrieval_time         |-> {"retrieval"},
     sql_generation_time    |-> {"sql_generation"},
     execution_time         |-> {"execution"},
     answer_generation_time |-> {"answer_generation"},
     total_time             |-> {"retrieval", "sql_generation", "execution",
                                 "other"}]

PerformanceExecuted ==
    [retrieval_time         |-> {"retrieval"},
     sql_generation_time    |-> {"sql_generation"},
     execution_time         |-> {"execution"},
     answer_generation_time |-> {"answer_generation"},
     total_time             |-> {"retrieval", "sql_generation", "execution",
                                 "answer_generation", "other"}]

\* A variant of the rejection response whose answer keeps the marker.
RejectionResponseKeepingMarker(q, rel, sql) ==
    [question            |-> q,
     relevant_schemas    |-> rel,
     sql_query           |-> NoneSql,
     data                |-> <<>>,
     answer              |-> <<InsufficientText>> \o StripTokens(sql),
     query_success       |-> FALSE,
     schema_insufficient |-> TRUE,
     performance         |-> PerformanceRejected]

\* A variant of the rejection response that does not list the schemas.
RejectionResponseWithoutSchemas(q, rel, sql) ==
    [question            |-> q,
     relevant_schemas    |-> <<>>,
     sql_query           |-> NoneSql,
     data                |-> <<>>,
     answer              |-> <<InsufficientText>>
                             \o StripTokens(RemoveAll(sql, InsufficientMarker)),
     query_success       |-> FALSE,
     schema_insufficient |-> TRUE,
     performance         |-> PerformanceRejected]

\* The dict returned on the rejection path (lines 692-707).
RejectionResponse(q, rel, sql) ==
    [question            |-> q,
     relevant_schemas    |-> rel,
     sql_query           |-> NoneSql,
     data                |-> <<>>,
     answer              |-> <<InsufficientText>>
                             \o StripTokens(RemoveAll(sql, InsufficientMarker)),
     query_success       |-> FALSE,
     schema_insufficient |-> TRUE,
     performance         |-> PerformanceRejected]

\* A variant of the execution response that always reports success.
ExecutionResponseAlwaysSuccessful(q, rel, qr, ans) ==
    [question         |-> q,
     relevant_schemas |-> rel,
     sql_query        |-> qr.sql,
     query_success    |-> TRUE,
     query_error      |-> qr.error,
     data             |-> qr.data,
     answer           |-> ans,
     performance      |-> PerformanceExecuted]

\* The dict returned after an execution (lines 740-755).
ExecutionResponse(q, rel, qr, ans) ==
    [question         |-> q,
     relevant_schemas |-> rel,
     sql_query        |-> qr.sql,
     query_success    |-> qr.success,
     query_error      |-> qr.error,
     data             |-> qr.data,
     answer           |-> ans,
     performance      |-> PerformanceExecuted]

\* An external call of the request, as recorded in calls: the service
\* called, the stage of ask that called it, and whether it returned
\* normally (ok = FALSE: the service raised).
Call(to, stage, ok) == [to |-> to, stage |-> stage, ok |-> ok]

\* LLMProvider._call_llm (lines 616-629): the content of the reply, or the
\* error text of line 629 when the API call raises (the exception is caught
\* at line 627).  A reply without content is "" (line 626).
_call_llm(content, raises) == IF raises THEN <<LLMErrorText>> ELSE content

\* What a chat-completion call can do: reply with one of the contents, or
\* raise.
LLMOutcomes(contents) ==
    {[raises |-> FALSE, content |-> c] : c \in contents}
        \cup {[raises |-> TRUE, content |-> <<>>]}

\* The number of dimensions the loop of lines 572-586 has begun when it
\* ends: all of them, or the first one at which self.schemas[i] raises.
LookupsMade(schs, emb, dims) ==
    LET broken == {d \in 1..Len(dims) :
                      MultiPathLoop(schs, emb, SubSeq(dims, 1, d),
                                    TopKPerPath).raised}
    IN  IF broken = {} THEN Len(dims)
        ELSE CHOOSE d \in broken : \A e \in broken : d <= e

\* A variant of the retrieval of ask in which a failing embedding call is
\* caught and its dimension skipped.
RetrieveForAskSkippingFailures(schs, emb, dims, fail_at) ==
    LET kept == IF fail_at = 0 THEN dims
                ELSE SubSeq(dims, 1, fail_at - 1)
                        \o SubSeq(dims, fail_at + 1, Len(dims))
    IN  [result  |-> MultiPathLoop(schs, emb, kept, TopKPerPath),
         lookups |-> IF fail_at = 0 THEN LookupsMade(schs, emb, dims)
                     ELSE Len(dims),
         failed  |-> fail_at]

\* The retrieval of ask (line 675) over the parsed dimensions; fail_at is
\* the lookup at which the embedding service raises (0: at none).
\* get_embeddings logs the exception and raises it again (lines 507-509);
\* neither multi_path_retrieve_schemas nor ask catches it.  The outcome is
\* what the method returns (or that it raised), the number of embedding
\* lookups begun, and which of them failed.
RetrieveForAsk(schs, emb, dims, fail_at) ==
    LET before == IF fail_at = 0 THEN dims ELSE SubSeq(dims, 1, fail_at - 1)
        found  == MultiPathLoop(schs, emb, before, TopKPerPath)
    IN  IF found.raised
        THEN [result |-> Raised, lookups |-> LookupsMade(schs, emb, before),
              failed |-> 0]
        ELSE IF fail_at # 0
        THEN [result |-> Raised, lookups |-> fail_at, failed |-> fail_at]
        ELSE [result |-> found, lookups |-> Len(dims), failed |-> 0]

\* Lines 672-676: the decomposition call and the multi-path retrieval.
AskRetrieve ==
    \E q \in Questions, llm \in LLMOutcomes(DecompositionReplies) :
        LET dims == ParseDimensions(_call_llm(llm.content, llm.raises))
        IN  \E fail_at \in 0..Len(dims) :
                LET r == RetrieveForAsk(schemas, schema_embeddings, dims,
                                        fail_at)
                IN  /\ pc = "idle"
                    /\ question' = q
                    /\ calls' = <<Call("llm", "decomposition", ~llm.raises)>>
                          \o [i \in 1..r.lookups |->
                                Call("embedding", "retrieval", i # r.failed)]
                    /\ IF r.result.raised
                       THEN pc' = "raised" /\ relevant_schemas' = <<>>
                       ELSE /\ pc' = "retrieved"
                            /\ relevant_schemas' = r.result.value
                    /\ UNCHANGED <<pipeline, sql_query, query_result,
                                   answer_prompt, response,
                                   vsVars, dbVars, sumVars, otherVars>>

\* Lines 678-686: the SQL-generation call.
AskGenerateSql ==
    \E llm \in LLMOutcomes(SqlReplies) :
        /\ pc = "retrieved"
        /\ sql_query' = generate_sql(_call_llm(llm.content, llm.raises))
        /\ calls' = Append(calls, Call("llm", "sql_generation", ~llm.raises))
        /\ pc' = "generated"
        /\ UNCHANGED <<pipeline, question, relevant_schemas, query_result,
                       answer_prompt, response, vsVars, dbVars, sumVars, otherVars>>

\* A variant of the test of line 688: the marker anywhere in the text.
IsRejectionAnywhere(sql) == InsufficientMarker \in Range(sql)

\* The test of line 688.
IsRejection(sql) == StartsWith(StripTokens(sql), InsufficientMarker)

\* Lines 688-707: the rejection path.
AskReject ==
    /\ pc = "generated"
    /\ IsRejection(sql_query)
    /\ response' = RejectionResponse(question, relevant_schemas, sql_query)
    /\ pc' = "done"
    /\ UNCHANGED <<pipeline, calls, question, relevant_schemas, sql_query,
                   query_result, answer_prompt, vsVars, dbVars, sumVars, otherVars>>

\* Lines 711-715: the execution of the statement.
AskExecute ==
    \E up \in BOOLEAN :
        LET done == execute_sql(sql_query, up, db, last_conn.at_return)
        IN  /\ pc = "generated"
            /\ ~IsRejection(sql_query)
            /\ db' = done.db
            /\ last_conn' = [at_call |-> last_conn.at_return, at_return |-> done.conn]
            /\ calls' = Append(calls, Call("store", "execution", ~done.raised))
            /\ IF done.raised
               THEN pc' = "raised" /\ query_result' = NoResult
               ELSE pc' = "executed" /\ query_result' = done.result
            /\ UNCHANGED <<pipeline, question, relevant_schemas, sql_query,
                           answer_prompt, response, vsVars, sumVars, otherVars>>

\* Lines 717-755: the answer and the response.  The language model is
\* called only in the branch of lines 726-733.
AskAnswer ==
    /\ pc = "executed"
    /\ \/ /\ query_result.success /\ query_result.data = <<>>
          /\ answer_prompt' = NoPrompt
          /\ calls' = calls
          /\ response' = ExecutionResponse(question, relevant_schemas,
                                           query_result, <<NoMatchText>>)
       \/ /\ query_result.success /\ query_result.data # <<>>
          /\ \E llm \in LLMOutcomes(AnswerReplies) :
                /\ answer_prompt' = AnswerPrompt(question, sql_query,
                                        _create_data_summary(query_result.data))
                /\ calls' = Append(calls, Call("llm", "answer_generation",
                                               ~llm.raises))
                /\ response' = ExecutionResponse(question, relevant_schemas,
                                    query_result,
                                    generate_answer(_call_llm(llm.content,
                                                              llm.raises)))
       \/ /\ ~query_result.success
          /\ answer_prompt' = NoPrompt
          /\ calls' = calls
          /\ response' = ExecutionResponse(question, relevant_schemas,
                              query_result, <<QueryFailedText, query_result.error>>)
    /\ pc' = "done"
    /\ UNCHANGED <<pipeline, question, relevant_schemas, sql_query,
                   query_result, vsVars, dbVars, sumVars, otherVars>>

\* The caller takes the response, or the exception that ended the request.
AskReturn ==
    /\ pc \in {"done", "raised"}
    /\ pc' = "idle"
    /\ calls' = <<>>
    /\ question' = NoneValue
    /\ relevant_schemas' = <<>>
    /\ sql_query' = <<>>
    /\ query_result' = NoResult
    /\ answer_prompt' = NoPrompt
    /\ response' = <<>>
    /\ UNCHANGED <<pipeline, vsVars, dbVars, sumVars, otherVars>>

-----------------------------------------------------------------------------
(* _create_data_summary called with any list of row mappings.              *)

MaxRows == 2   \* a row list has at most MaxRows rows

CellValues ==
    {IntValue("1"), IntValue("2"), StrValue("Zhang San"),
     [type |-> "NoneType", text |-> "None"]}

RowMappings == UNION {[cs -> CellValues] : cs \in SUBSET Columns}

DataInputs == SeqsUpTo(RowMappings, MaxRows)

NoSummary == <<>>

Summarize ==
    \E data \in DataInputs :
        /\ summary = NoSummary
        /\ sum_data' = data
        /\ summary' = _create_data_summary(data)
        /\ UNCHANGED <<vsVars, dbVars, askVars, otherVars>>

SummaryReturn ==
    /\ summary # NoSummary
    /\ sum_data' = <<>>
    /\ summary' = NoSummary
    /\ UNCHANGED <<vsVars, dbVars, askVars, otherVars>>

-----------------------------------------------------------------------------
(* Several ask calls running on one pipeline at the same time: the         *)
(* retrieval of each (multi_path_retrieve_schemas, lines 546-589), one     *)
(* iteration of the loop over the dimensions at a time.                    *)

RequestIds == {1, 2}

\* The locals of a retrieval: dimensions (line 566), the number of
\* dimensions the loop has finished, all_retrieved_schemas (line 569).
IdleRequest ==
    [pc |-> "idle", dimensions |-> <<>>, done |-> 0,
     all_retrieved_schemas |-> <<>>]

\* A variant in which the set of seen names belongs to the VectorStore and
\* is shared by the requests in progress.
seen_table_names_shared(reqs, r) ==
    UNION {Range(reqs[q].all_retrieved_schemas) : q \in DOMAIN reqs}

\* seen_table_names (line 570): a local of the call, holding the names
\* of the schemas the call has appended.
seen_table_names(reqs, r) == Range(reqs[r].all_retrieved_schemas)

\* Lines 581-586 for the schemas of one dimension: a schema whose name is
\* in the set is skipped, the name of an appended one is added to the set.
AppendNotSeen(acc, names, seen) ==
    LET F[p \in 0..Len(names)] ==
            IF p = 0 THEN [acc |-> acc, seen |-> seen]
            ELSE LET prev == F[p - 1]
                 IN  IF names[p] \in prev.seen THEN prev
                     ELSE [acc  |-> Append(prev.acc, names[p]),
                           seen |-> prev.seen \cup {names[p]}]
    IN  F[Len(names)].acc

\* Lines 564-566: the dimensions the decomposition call can give, its
\* failure (answered by _call_llm with its error text) included.
DecomposedDimensions ==
    {ParseDimensions(_call_llm(llm.content, llm.raises)) :
        llm \in LLMOutcomes(DecompositionReplies)}

\* Lines 563-570: the decomposition call and the parsing of its reply;
\* without a dimension the loop is skipped and the empty list is returned
\* (line 589).
ConcurrentDecompose(r) ==
    /\ pipeline.constructed
    /\ requests[r].pc = "idle"
    /\ \E dimensions \in DecomposedDimensions :
          requests' = [requests EXCEPT ![r] =
              [pc |-> IF dimensions = <<>> THEN "returned" ELSE "looking",
               dimensions |-> dimensions,
               done |-> 0,
               all_retrieved_schemas |-> <<>>]]
    /\ UNCHANGED <<vsVars, dbVars, askVars, sumVars,
                   initVars, errVars, mcpVars>>

\* Lines 572-589: one iteration of the loop, for the next dimension; after
\* the last one the list is returned.
ConcurrentLookup(r) ==
    LET req  == requests[r]
        d    == req.done + 1
        q    == get_embeddings(<<req.dimensions[d]>>)[1]
        sims == cosine_similarity(q, schema_embeddings)
        sel  == SelectSchemas(schemas,
                    TopIndices(q, sims, TopKPerPath, Len(schemas)))
        seen == seen_table_names(requests, r)
    IN  /\ req.pc = "looking"
        /\ req.done < Len(req.dimensions)
        /\ requests' = [requests EXCEPT ![r] =
              IF sel.raised
              THEN [req EXCEPT !.pc = "raised"]
              ELSE [req EXCEPT
                      !.pc = IF d = Len(req.dimensions)
                             THEN "returned" ELSE "looking",
                      !.done = d,
                      !.all_retrieved_schemas =
                          AppendNotSeen(@, sel.value, seen)]]
        /\ UNCHANGED <<vsVars, dbVars, askVars, sumVars,
                       initVars, errVars, mcpVars>>

\* The caller has taken the list, or the exception.
ConcurrentReturn(r) ==
    /\ requests[r].pc \in {"returned", "raised"}
    /\ requests' = [requests EXCEPT ![r] = IdleRequest]
    /\ UNCHANGED <<vsVars, dbVars, askVars, sumVars,
                   initVars, errVars, mcpVars>>

InitConcurrent == requests = [r \in RequestIds |-> IdleRequest]

-----------------------------------------------------------------------------
(* PGManager._init_database (lines 147-173) with _create_educational_schema *)
(* (lines 179-234) and _insert_sample_data (lines 236-381).                 *)

\* The tables in the order _create_educational_schema creates them.
InitTables == <<"students", "original_input", "study_detail", "summary">>

\* The statements of one initialization, in order: four CREATE TABLE, then
\* the sample rows of each table.
InitSteps ==
    [i \in 1..(2 * Len(InitTables)) |->
        IF i <= Len(InitTables)
        THEN [op |-> "create", table |-> InitTables[i]]
        ELSE [op |-> "insert", table |-> InitTables[i - Len(InitTables)]]]

\* A store: its tables, and for each how many times the sample rows are in it.
EmptyStore ==
    [tables |-> {}, batches |-> [t \in Range(InitTables) |-> 0]]

\* The statement is refused by the store: CREATE TABLE of a table that
\* exists, INSERT into one that does not, or the failure injected at fail_at.
StepFails(work, i, fail_at) ==
    \/ i = fail_at
    \/ InitSteps[i].op = "create" /\ InitSteps[i].table \in work.tables
    \/ InitSteps[i].op = "insert" /\ InitSteps[i].table \notin work.tables

\* The effect of a statement on the uncommitted work of the transaction.
StepEffect(work, i) ==
    IF InitSteps[i].op = "create"
    THEN [tables  |-> work.tables \cup {InitSteps[i].table},
          batches |-> [work.batches EXCEPT ![InitSteps[i].table] = 0]]
    ELSE [work EXCEPT !.batches[InitSteps[i].table] = @ + 1]

\* Lines 166-167: the statements from the i-th on, on one cursor; failed_at
\* is the statement that raised, 0 when none did.
RECURSIVE RunInitSteps(_, _, _)
RunInitSteps(work, i, fail_at) ==
    IF i > Len(InitSteps)
    THEN [failed_at |-> 0, work |-> work]
    ELSE IF StepFails(work, i, fail_at)
    THEN [failed_at |-> i, work |-> work]
    ELSE RunInitSteps(StepEffect(work, i), i + 1, fail_at)

\* A variant on a connection in autocommit mode: what ran before the
\* failing statement stays in the store.
_init_database_in_autocommit(store, refused, fail_at) ==
    LET run == RunInitSteps(store, 1, fail_at)
    IN  IF refused
        THEN [raised |-> TRUE, store |-> store]
        ELSE IF "students" \in store.tables
        THEN [raised |-> FALSE, store |-> store]
        ELSE [raised |-> run.failed_at # 0, store |-> run.work]

\* _init_database: the connection may be refused (line 152); the existence
\* check returns early (lines 155-163); an exception leaves the with block
\* of the connection, which rolls back, and is raised again (lines 171-173);
\* otherwise the work is committed (line 169).
_init_database(store, refused, fail_at) ==
    LET run == RunInitSteps(store, 1, fail_at)
    IN  IF refused
        THEN [raised |-> TRUE, store |-> store]
        ELSE IF "students" \in store.tables
        THEN [raised |-> FALSE, store |-> store]
        ELSE IF run.failed_at # 0
        THEN [raised |-> TRUE, store |-> store]
        ELSE [raised |-> FALSE, store |-> run.work]

NoInitCall == [pc |-> "idle", refused |-> FALSE, fail_at |-> 0]

\* A PGManager is constructed on the store (line 145).
InitDatabase ==
    \E refused \in BOOLEAN, fail_at \in 0..Len(InitSteps) :
        LET out == _init_database(pg_catalog, refused, fail_at)
        IN  /\ init_call.pc = "idle"
            /\ pg_catalog' = out.store
            /\ init_call' = [pc |-> IF out.raised THEN "raised" ELSE "returned",
                             refused |-> refused, fail_at |-> fail_at]
            /\ UNCHANGED <<vsVars, dbVars, askVars, sumVars,
                           conVars, errVars, mcpVars>>

\* The constructor has returned, or its caller has the exception.
InitDatabaseReturn ==
    /\ init_call.pc # "idle"
    /\ init_call' = NoInitCall
    /\ UNCHANGED <<pg_catalog, vsVars, dbVars, askVars, sumVars,
                   conVars, errVars, mcpVars>>

\* The stores an initialization can meet: any of the tables, each holding
\* the sample rows or not.
Stores ==
    {st \in [tables : SUBSET Range(InitTables),
             batches : [Range(InitTables) -> {0, 1}]] :
        \A t \in Range(InitTables) :
            t \notin st.tables => st.batches[t] = 0}

InitInitDb == pg_catalog = EmptyStore /\ init_call = NoInitCall

-----------------------------------------------------------------------------
(* ErrorRecordManager.save_individual_errors (error_records_new.py, lines  *)
(* 43-117). A question is its id, whether student_answer differs from      *)
(* correct_answer, and whether the store refuses its INSERT.               *)

MaxQuestions == 2  \* a call brings at most MaxQuestions questions
MaxStored == 2     \* a call starts with fewer than MaxStored stored rows

ErrorQuestions ==
    [id : {"q1", "q2"}, wrong : BOOLEAN, insert_fails : BOOLEAN]

\* error_data: the questions of all groups, in order (lines 51-56).
ErrorData == SeqsUpTo(ErrorQuestions, MaxQuestions)

\* Lines 62-70: the questions whose answers differ, in order.
questions_to_vectorize(data) == SelectSeq(data, LAMBDA q : q.wrong)

\* Lines 89-109: the INSERT statements from the i-th on. pending is the
\* uncommitted work of the connection; a psycopg2.Error rolls the
\* connection back (line 108) and the loop continues (line 109).
RECURSIVE RunInserts(_, _, _)
RunInserts(qs, i, pending) ==
    IF i > Len(qs)
    THEN pending
    ELSE IF qs[i].insert_fails
    THEN RunInserts(qs, i + 1, <<>>)
    ELSE RunInserts(qs, i + 1, Append(pending, qs[i].id))

\* save_individual_errors: the embeddings are requested when there is a
\* question to embed (lines 75-78), their failure is raised again (line 41)
\* and caught at line 114: rollback, False. Otherwise the inserts run, what
\* is pending is committed (line 111) and True is returned (line 112).
save_individual_errors(data, embed_fails) ==
    LET qs == questions_to_vectorize(data)
    IN  IF embed_fails /\ qs # <<>>
        THEN [result |-> FALSE, committed |-> <<>>]
        ELSE [result |-> TRUE, committed |-> RunInserts(qs, 1, <<>>)]

NoSaveCall ==
    [pc |-> "idle", data |-> <<>>, embed_fails |-> FALSE, result |-> FALSE]

\* A call of save_individual_errors, to its return.
SaveIndividualErrors ==
    \E data \in ErrorData, embed_fails \in BOOLEAN :
        LET out == save_individual_errors(data, embed_fails)
        IN  /\ save_call.pc = "idle"
            /\ Len(study_detail) < MaxStored
            /\ study_detail' = study_detail \o out.committed
            /\ save_call' = [pc |-> "returned", data |-> data,
                             embed_fails |-> embed_fails,
                             result |-> out.result]
            /\ UNCHANGED <<vsVars, dbVars, askVars, sumVars,
                           conVars, initVars, mcpVars>>

\* The caller has the result.
SaveReturn ==
    /\ save_call.pc = "returned"
    /\ save_call' = NoSaveCall
    /\ UNCHANGED <<study_detail, vsVars, dbVars, askVars, sumVars,
                   conVars, initVars, mcpVars>>

InitErrors == study_detail = <<>> /\ save_call = NoSaveCall

-----------------------------------------------------------------------------
(* analyze_with_qwen_openai (mcp_client.py, lines 16-149): the three model *)
(* calls and the tool calls they ask for. The message history is the       *)
(* sequence of the roles of its messages.                                  *)

MaxHistory == 2   \* the caller's history has at most MaxHistory messages

\* The tools of the MCP server (mcp_server.py, lines 20-21 and 61-62).
FetchTool == "get_student_errors"
SaveTool  == "save_summary"
McpTools  == {FetchTool, SaveTool}

\* What a reply of the model asks for: no tool call, or the first tool call
\* with arguments that are JSON or are not.
ToolRequests ==
    {[tool |-> "none", json |-> TRUE]}
        \cup [tool : McpTools, json : BOOLEAN]

Unbound == "<unbound>"

\* The message of a reply: its content and the tool its first tool call
\* names, "none" when it has no tool call.
Message(content, tool) == [content |-> content, tool_calls |-> tool]

\* The locals of a call: response (line 40), tool_call (line 54),
\* tool_result (line 60), the tools called so far, the exception that left
\* the function, the value returned.
IdleMcp ==
    [pc |-> "idle", messages |-> <<>>, response |-> Message(Unbound, Unbound),
     tool_call |-> Unbound, tool_result |-> Unbound, called |-> <<>>,
     fault |-> "none", result |-> "none"]

Raise(m, exception) == [m EXCEPT !.pc = "raised", !.fault = exception]

\* Lines 20-37: the caller's history; the tools are listed, or the server
\* cannot be reached.
McpStart ==
    \E n \in 1..MaxHistory, up \in BOOLEAN :
        /\ mcp.pc = "idle"
        /\ mcp' = IF up
                  THEN [IdleMcp EXCEPT !.pc = "first_reply",
                                       !.messages = [i \in 1..n |-> "user"]]
                  ELSE Raise([IdleMcp EXCEPT
                                !.messages = [i \in 1..n |-> "user"]],
                             "ConnectionError")
        /\ UNCHANGED <<vsVars, dbVars, askVars, sumVars,
                       conVars, initVars, errVars>>

\* Lines 40-57: the first model call; a tool call in the reply binds
\* tool_call and parses its arguments; without one the if block is skipped.
McpFirstReply ==
    \E raises \in BOOLEAN, req \in ToolRequests, text \in {"text", "None"} :
        /\ mcp.pc = "first_reply"
        /\ mcp' = IF raises THEN Raise(mcp, "APIError")
                  ELSE IF req.tool = "none"
                  THEN [mcp EXCEPT !.pc = "read_result",
                                   !.response = Message(text, "none")]
                  ELSE IF ~req.json
                  THEN Raise([mcp EXCEPT !.response = Message(text, req.tool),
                                         !.tool_call = req.tool],
                             "JSONDecodeError")
                  ELSE [mcp EXCEPT !.pc = "first_tool",
                                   !.response = Message(text, req.tool),
                                   !.tool_call = req.tool]
        /\ UNCHANGED <<vsVars, dbVars, askVars, sumVars,
                       conVars, initVars, errVars>>

\* Line 60: the tool the reply named is called; its result has no content,
\* a text that is not JSON, or a JSON text.
McpFirstTool ==
    \E raises \in BOOLEAN, content \in {"empty", "text", "json"} :
        /\ mcp.pc = "first_tool"
        /\ mcp' = IF raises
                  THEN Raise([mcp EXCEPT !.called = Append(@, mcp.tool_call)],
                             "ToolError")
                  ELSE [mcp EXCEPT !.pc = "read_result",
                                   !.called = Append(@, mcp.tool_call),
                                   !.tool_result = content]
        /\ UNCHANGED <<vsVars, dbVars, askVars, sumVars,
                       conVars, initVars, errVars>>

\* Lines 64-100, outside the if block: the text of tool_result is read and
\* parsed, then the reply, the tool message and the analysis prompt are
\* appended to the history.
McpReadResult ==
    /\ mcp.pc = "read_result"
    /\ mcp' = IF mcp.tool_result = Unbound
              THEN Raise(mcp, "UnboundLocalError")
              ELSE IF mcp.tool_result = "empty"
              THEN Raise(mcp, "IndexError")
              ELSE IF mcp.tool_result = "text"
              THEN Raise(mcp, "JSONDecodeError")
              ELSE [mcp EXCEPT !.pc = "second_reply",
                               !.messages = @ \o <<"assistant", "tool", "user">>]
    /\ UNCHANGED <<vsVars, dbVars, askVars, sumVars,
                   conVars, initVars, errVars>>

\* Lines 103-119: the second model call; the content of its reply is
\* stripped (None has no strip) and the save prompt is appended.
McpSecondReply ==
    \E raises \in BOOLEAN, content \in {"json", "None"} :
        /\ mcp.pc = "second_reply"
        /\ mcp' = IF raises THEN Raise(mcp, "APIError")
                  ELSE IF content = "None"
                  THEN Raise(mcp, "AttributeError")
                  ELSE [mcp EXCEPT !.pc = "third_reply",
                                   !.messages = Append(@, "user")]
        /\ UNCHANGED <<vsVars, dbVars, askVars, sumVars,
                       conVars, initVars, errVars>>

\* Lines 122-148: the third model call; without a tool call the content of
\* the first reply is returned (line 148).
McpThirdReply ==
    \E raises \in BOOLEAN, req \in ToolRequests :
        /\ mcp.pc = "third_reply"
        /\ mcp' = IF raises THEN Raise(mcp, "APIError")
                  ELSE IF req.tool = "none"
                  THEN [mcp EXCEPT !.pc = "returned", !.result = mcp.response.content]
                  ELSE IF ~req.json
                  THEN Raise(mcp, "JSONDecodeError")
                  ELSE [mcp EXCEPT !.pc = "third_tool",
                                   !.tool_call = req.tool]
        /\ UNCHANGED <<vsVars, dbVars, askVars, sumVars,
                       conVars, initVars, errVars>>

\* Lines 143-145: the tool the third reply named is called, and the
\* function ends, returning None.
McpThirdTool ==
    \E raises \in BOOLEAN :
        /\ mcp.pc = "third_tool"
        /\ mcp' = IF raises
                  THEN Raise([mcp EXCEPT !.called = Append(@, mcp.tool_call)],
                             "ToolError")
                  ELSE [mcp EXCEPT !.pc = "returned", !.result = "None",
                                   !.called = Append(@, mcp.tool_call)]
        /\ UNCHANGED <<vsVars, dbVars, askVars, sumVars,
                       conVars, initVars, errVars>>

\* The caller (main, lines 151-156) has the value or the exception.
McpReturn ==
    /\ mcp.pc \in {"returned", "raised"}
    /\ mcp' = IdleMcp
    /\ UNCHANGED <<vsVars, dbVars, askVars, sumVars,
                   conVars, initVars, errVars>>

InitMcp == mcp = IdleMcp

\* Nothing has been called on the pipeline, the store or the client.
InitOther == InitConcurrent /\ InitInitDb /\ InitErrors /\ InitMcp

-----------------------------------------------------------------------------
(* Specification of a VectorStore used on its own: any sequence of builds  *)
(* and retrievals.                                                         *)

InitStore ==
    /\ db = [k \in Keys |-> IF k = "1" THEN "7" ELSE Absent]
    /\ last_conn = [at_call |-> "none", at_return |-> "none"]

InitAsk ==
    /\ calls = <<>>
    /\ question = NoneValue
    /\ relevant_schemas = <<>>
    /\ sql_query = <<>>
    /\ query_result = NoResult
    /\ answer_prompt = NoPrompt
    /\ response = <<>>

InitSum ==
    /\ sum_data = <<>>
    /\ summary = NoSummary

\* No pipeline is constructed around a VectorStore used on its own.
NoPipeline == [faults |-> {}, constructed |-> FALSE]

\* A VectorStore as its constructor leaves it (lines 484-485), and a store
\* and a pipeline nothing has been asked of.
InitAlone ==
    /\ schemas = <<>>
    /\ schema_embeddings = NoEmbeddings
    /\ vs_call = NoCall
    /\ pipeline = NoPipeline
    /\ pc = "idle"
    /\ InitStore /\ InitAsk /\ InitSum

InitVS == InitAlone /\ InitOther

NextVS == Build \/ Retrieve \/ MultiPathRetrieve \/ VSReturn

SpecVS == InitVS /\ [][NextVS]_vars

-----------------------------------------------------------------------------
(* Specification of _create_data_summary on its own.                       *)

InitSummary == InitVS

NextSummary == Summarize \/ SummaryReturn

SpecSummary == InitSummary /\ [][NextSummary]_vars

-----------------------------------------------------------------------------
(* Specification of the pipeline: the state after NL2SQLPipeline.__init__  *)
(* (lines 649-661), then any sequence of ask requests.                     *)

\* What can go wrong while the pipeline is constructed: the store refuses
\* the connection of _init_database, the embedding client cannot be made,
\* the API key is missing, the provider is not supported, the metadata
\* query of get_all_schemas fails, the embedding service fails.
ConstructionFaults ==
    {"database", "embedding_client", "api_key", "provider",
     "metadata_query", "embedding_service"}

\* PGManager.get_all_schemas: the base tables in the order the catalog
\* lists them; every exception is caught and [] is returned (lines 448-450).
get_all_schemas(catalog, fails) == IF fails THEN <<>> ELSE catalog

Constructed(schs, emb) ==
    [raised |-> FALSE, schemas |-> schs, schema_embeddings |-> emb]
NotConstructed ==
    [raised |-> TRUE, schemas |-> <<>>, schema_embeddings |-> NoEmbeddings]

\* NL2SQLPipeline.__init__ (lines 649-661): PGManager (whose _init_database
\* raises again what it catches, line 173), VectorStore (line 487) and
\* LLMProvider (lines 599, 612) raise; get_all_schemas does not; then
\* build_embeddings, which calls the embedding service only for a non-empty
\* list.
NL2SQLPipeline_init(catalog, faults) ==
    LET all_schemas == get_all_schemas(catalog, "metadata_query" \in faults)
    IN  IF faults \cap {"database", "embedding_client", "api_key",
                        "provider"} # {}
        THEN NotConstructed
        ELSE IF all_schemas = <<>>
        THEN Constructed(<<>>, NoEmbeddings)
        ELSE IF "embedding_service" \in faults
        THEN NotConstructed
        ELSE Constructed(all_schemas, EmbeddingMatrix(get_embeddings(
                [i \in 1..Len(all_schemas) |-> SchemaText(all_schemas[i])])))

\* The state after the constructor has run against a catalog that lists
\* the base tables in some order: the pipeline, when it did not raise.
Init ==
    /\ \E catalog \in SchemaLists, faults \in SUBSET ConstructionFaults :
          LET made == NL2SQLPipeline_init(catalog, faults)
          IN  /\ Len(catalog) = Cardinality(Tables)
              /\ pipeline = [faults |-> faults, constructed |-> ~made.raised]
              /\ schemas = made.schemas
              /\ schema_embeddings = made.schema_embeddings
              /\ pc = IF made.raised THEN "unconstructed" ELSE "idle"
    /\ vs_call = NoCall
    /\ InitStore /\ InitAsk /\ InitSum
    /\ InitOther

Next ==
    \/ AskRetrieve
    \/ AskGenerateSql
    \/ AskReject
    \/ AskExecute
    \/ AskAnswer
    \/ AskReturn

Spec == Init /\ [][Next]_vars

-----------------------------------------------------------------------------
(* Specification of concurrent requests: the state after the constructor,  *)
(* then the retrievals of two ask calls, interleaved in any way.           *)

NextConcurrent ==
    \E r \in RequestIds :
        \/ ConcurrentDecompose(r)
        \/ ConcurrentLookup(r)
        \/ ConcurrentReturn(r)

SpecConcurrent == Init /\ [][NextConcurrent]_vars

-----------------------------------------------------------------------------
(* Specification of PGManager constructed, any number of times, on a store *)
(* that holds any of the tables.                                           *)

InitPG ==
    /\ InitAlone /\ InitConcurrent /\ InitErrors /\ InitMcp
    /\ pg_catalog \in Stores
    /\ init_call = NoInitCall

NextPG == InitDatabase \/ InitDatabaseReturn

SpecPG == InitPG /\ [][NextPG]_vars

-----------------------------------------------------------------------------
(* Specification of ErrorRecordManager: any sequence of calls of           *)
(* save_individual_errors on one connection.                               *)

NextErrors == SaveIndividualErrors \/ SaveReturn

SpecErrors == InitVS /\ [][NextErrors]_vars

-----------------------------------------------------------------------------
(* Specification of the MCP client: any sequence of calls of               *)
(* analyze_with_qwen_openai.                                               *)

NextMcp ==
    \/ McpStart
    \/ McpFirstReply
    \/ McpFirstTool
    \/ McpReadResult
    \/ McpSecondReply
    \/ McpThirdReply
    \/ McpThirdTool
    \/ McpReturn

SpecMcp == InitVS /\ [][NextMcp]_vars

-----------------------------------------------------------------------------
(* Properties of ask and execute_sql, checked under Spec.                  *)

\* The step of ask that follows the SQL generation.
AfterGeneration == pc = "generated" /\ pc' # "generated"

\* The step in which ask calls execute_sql.
ExecutionStep == pc = "generated" /\ pc' \in {"executed", "raised"}

\* The store was reachable in the execution that produced the result.
Reachable(qr) == qr.error # "connection refused"

\* C1: ask asks the store to execute exactly when the synthesized string
\* does not begin with SCHEMA_INSUFFICIENT: ; when it does, the request ends
\* at once, without execution and without an answer-generation call, in a
\* response with sql_query = null, data = [], query_success = false and
\* schema_insufficient = true.
C1_RejectionIffMarker ==
    [][AfterGeneration =>
        /\ ExecutionStep <=> ~StartsWith(sql_query, InsufficientMarker)
        /\ StartsWith(sql_query, InsufficientMarker) =>
              /\ pc' = "done"
              /\ db' = db /\ last_conn' = last_conn /\ query_result' = NoResult
              /\ answer_prompt' = NoPrompt
              /\ response'.sql_query = NoneSql
              /\ response'.data = <<>>
              /\ response'.query_success = FALSE
              /\ response'.schema_insufficient = TRUE]_vars

\* C1 witness: a request ended on the rejection path, the marker having
\* been behind a code fence and leading whitespace in the reply.
C1_Witness ==
    /\ pc = "done"
    /\ sql_query = <<"SCHEMA_INSUFFICIENT:", "no phone column">>
    /\ response.schema_insufficient = TRUE
    /\ query_result = NoResult

\* C2: execute_sql never raises; on every failure it returns success =
\* false, data = [], the error message and the original statement, and the
\* committed data of the store is what it was before the call.
C2_FailureIsReturnedAndRolledBack ==
    [][ExecutionStep =>
        /\ pc' = "executed"
        /\ query_result'.sql = sql_query
        /\ ~query_result'.success =>
              /\ query_result'.data = <<>>
              /\ query_result'.error # NoneValue
              /\ db' = db]_vars

\* C2 witness: a text whose first statement inserts a row and whose second
\* statement is invalid has failed, and the row is not in the store.
C2_Witness ==
    /\ pc = "executed"
    /\ sql_query = <<"INSERT", "2", ";", "SELEC">>
    /\ ~query_result.success
    /\ query_result.error = "syntax error"
    /\ db["2"] = Absent

PreviousExecutionFailed == last_conn.at_return \in {"rolled_back", "aborted"}

\* C4: an invalid statement gives query_success = false and a non-null
\* query_error in the response; and a statement that is valid on the
\* current store executes successfully when the store is reachable, also
\* when the previous execution failed.
C4_FailureLeavesNoState ==
    [][/\ (ExecutionStep /\ CursorExecute(sql_query, db).error # NoneValue) =>
             /\ pc' = "executed"
             /\ ~query_result'.success /\ query_result'.error # NoneValue
       /\ (pc = "executed" /\ pc' = "done") =>
             /\ response'.query_success = query_result.success
             /\ response'.query_error = query_result.error
       /\ (ExecutionStep /\ PreviousExecutionFailed
             /\ CursorExecute(sql_query, db).error = NoneValue) =>
             /\ pc' = "executed"
             /\ Reachable(query_result') => query_result'.success]_vars

\* C4 witness: the previous execution failed and was rolled back, and the
\* execution of this request succeeded with rows.
C4_Witness ==
    /\ pc = "done"
    /\ last_conn = [at_call |-> "rolled_back", at_return |-> "committed"]
    /\ response.query_success
    /\ response.query_error = NoneValue
    /\ response.data # <<>>

-----------------------------------------------------------------------------
(* Properties of the retrieval operations, checked under SpecVS.           *)

\* The index holds a non-empty schema list and the embeddings of exactly
\* these schemas.
IndexBuilt ==
    /\ schemas # <<>>
    /\ schema_embeddings = EmbeddingMatrix(get_embeddings(
            [i \in 1..Len(schemas) |-> SchemaText(schemas[i])]))

\* The stored embedding of the schema called name.
EmbeddingOf(name) ==
    schema_embeddings.rows[CHOOSE i \in 1..Len(schemas) : schemas[i] = name]

\* The names in s are in non-increasing order of cosine similarity to query.
NonIncreasingSimilarity(query, s) ==
    \A i, j \in 1..Len(s) :
        i < j => ~CosLess(Embedding(query), EmbeddingOf(s[i]), EmbeddingOf(s[j]))

\* C5: on a non-empty built index, for every query and every k >= 0,
\* retrieve_relevant_schemas(query, k) returns at most min(k, |schemas|)
\* schemas, no table name twice, in non-increasing order of similarity.
C5_TopKBounded ==
    (vs_call.op = "retrieve" /\ IndexBuilt) =>
        /\ ~vs_call.result.raised
        /\ Len(vs_call.result.value) <= Min(vs_call.top_k, Len(schemas))
        /\ NoDuplicates(vs_call.result.value)
        /\ NonIncreasingSimilarity(vs_call.arg[1], vs_call.result.value)

\* C6: multi_path_retrieve_schemas never returns a table name twice.
C6_MultiPathNoDuplicates ==
    (vs_call.op = "multi" /\ ~vs_call.result.raised) =>
        NoDuplicates(vs_call.result.value)

\* C6 witness: the same dimension was given twice, with two schemas per
\* path on a built index of three, and two schemas came back.
C6_Witness ==
    /\ vs_call.op = "multi"
    /\ vs_call.arg = <<"students", "students">>
    /\ vs_call.top_k = 2
    /\ IndexBuilt /\ Len(schemas) = 3
    /\ ~vs_call.result.raised
    /\ Len(vs_call.result.value) = 2

\* The elements of s in first-seen order, each kept once.
FirstSeen(s) ==
    LET keep == {i \in 1..Len(s) : \A j \in 1..(i - 1) : s[j] # s[i]}
        nth(r) == CHOOSE i \in keep : Cardinality({j \in keep : j < i}) = r - 1
    IN  [r \in 1..Cardinality(keep) |-> s[nth(r)]]

\* The concatenation of the single-path results for the dimensions 1..d.
SinglePathConcat(dims, top_k, d) ==
    LET F[p \in 0..d] ==
            IF p = 0 THEN <<>>
            ELSE F[p - 1] \o retrieve_relevant_schemas(
                     schemas, schema_embeddings, dims[p], top_k).value
    IN  F[d]

\* C7: in every index state in which the single-path operation returns a
\* result for each dimension, multi_path_retrieve_schemas returns the
\* concatenation of the single-path results in dimension order, with the
\* names seen earlier dropped.
C7_MultiPathEqualsSinglePaths ==
    LET dims == ParseDimensions(vs_call.arg)
    IN  (/\ vs_call.op = "multi"
         /\ \A p \in 1..Len(dims) :
               ~retrieve_relevant_schemas(schemas, schema_embeddings,
                                          dims[p], vs_call.top_k).raised) =>
            /\ ~vs_call.result.raised
            /\ vs_call.result.value =
                   FirstSeen(SinglePathConcat(dims, vs_call.top_k, Len(dims)))

-----------------------------------------------------------------------------
(* Properties of _create_data_summary, checked under SpecSummary.          *)

Summarized == summary # NoSummary

\* The position of the brace that closes columns_info in a serialized
\* summary: the first closing brace.
ColumnsInfoEnd ==
    CHOOSE i \in 1..Len(summary) :
        summary[i] = "}" /\ \A j \in 1..(i - 1) : summary[j] # "}"

\* The (column, type) pairs read back from the serialized summary.
ColumnsInfoRead ==
    {<<summary[j], summary[j + 1]>> :
        j \in {j \in 6..(ColumnsInfoEnd - 2) : (j - 6) % 2 = 0}}

\* C8: the summary of an empty row list is exactly the fixed no-data
\* string; for a non-empty list, total_records is the number of rows, the
\* keys of columns_info are the union of the keys of all rows, and each
\* column's type is the type name of the first value of that column in row
\* order.
C8_SummaryShape ==
    Summarized =>
        IF sum_data = <<>>
        THEN summary = <<NoDataText>>
        ELSE /\ summary[2] = "total_records"
             /\ summary[3] = NatText(Len(sum_data))
             /\ summary[4] = "columns_info"
             /\ {p[1] : p \in ColumnsInfoRead}
                   = UNION {DOMAIN sum_data[i] : i \in 1..Len(sum_data)}
             /\ \A p \in ColumnsInfoRead :
                   \E i \in 1..Len(sum_data) :
                       /\ p[1] \in DOMAIN sum_data[i]
                       /\ \A j \in 1..(i - 1) : p[1] \notin DOMAIN sum_data[j]
                       /\ p[2] = sum_data[i][p[1]].type
             /\ Cardinality(ColumnsInfoRead)
                   = Cardinality({p[1] : p \in ColumnsInfoRead})

\* C8 witness: two rows with different key sets, the second giving the
\* column grade another type than the first.
C8_Witness ==
    /\ Summarized
    /\ Len(sum_data) = 2
    /\ DOMAIN sum_data[1] = {"grade"}
    /\ DOMAIN sum_data[2] = {"grade", "student_id"}
    /\ sum_data[1]["grade"].type = "NoneType"
    /\ sum_data[2]["grade"].type = "int"
    /\ <<"grade", "NoneType">> \in ColumnsInfoRead

\* The cell values of a row list, as texts.
CellTexts(data) ==
    {data[i][c].text : <<i, c>> \in
        {<<i, c>> \in (1..Len(data)) \X Columns : c \in DOMAIN data[i]}}

\* What the claim lets a summary depend on: the row count, the column
\* names and the first-observed type of each column.
Shape(data) ==
    [count   |-> Len(data),
     columns |-> UNION {DOMAIN data[i] : i \in 1..Len(data)},
     types   |-> {<<c, data[i][c].type>> : <<i, c>> \in
                    {<<i, c>> \in (1..Len(data)) \X Columns :
                        /\ c \in DOMAIN data[i]
                        /\ \A j \in 1..(i - 1) : c \notin DOMAIN data[j]}}]

\* Every row list of the input domain with its shape and its summary.
ShapesAndSummaries ==
    {<<Shape(d), _create_data_summary(d)>> : d \in DataInputs}

ShapeTokens(data) ==
    {NatText(Len(data)), "{", "}", "total_records", "columns_info",
     "data_structure", "privacy_note", DataStructureLabel, PrivacyLabel,
     NoDataText}
    \cup UNION {DOMAIN data[i] : i \in 1..Len(data)}
    \cup {data[i][c].type : <<i, c>> \in
            {<<i, c>> \in (1..Len(data)) \X Columns : c \in DOMAIN data[i]}}

-----------------------------------------------------------------------------
(* Properties of the response of ask, checked under Spec.                  *)

ResponseKeys ==
    {"question", "relevant_schemas", "sql_query", "query_success",
     "query_error", "data", "answer", "performance"}

PerformanceKeys ==
    {"retrieval_time", "sql_generation_time", "execution_time",
     "answer_generation_time", "total_time"}

\* C10: every response of ask has the keys question, relevant_schemas,
\* sql_query, query_success, query_error, data, answer and performance with
\* its five timing keys, and schema_insufficient only on the rejection path.
C10_ResponseKeys ==
    pc = "done" =>
        /\ ResponseKeys \subseteq DOMAIN response
        /\ DOMAIN response.performance = PerformanceKeys
        /\ DOMAIN response \subseteq ResponseKeys \cup {"schema_insufficient"}
        /\ "schema_insufficient" \in DOMAIN response => IsRejection(sql_query)

-----------------------------------------------------------------------------
(* Properties of one request and of the construction, checked under Spec.  *)

\* The position of a stage in the order of ask.
StageRank(stage) ==
    CASE stage = "decomposition"     -> 1
      [] stage = "retrieval"         -> 2
      [] stage = "sql_generation"    -> 3
      [] stage = "execution"         -> 4
      [] stage = "answer_generation" -> 5

CallsOf(stage) == {i \in 1..Len(calls) : calls[i].stage = stage}

\* The calls made so far are in the order of the stages, and every stage
\* but the retrieval has made at most one.
CallsInOrder ==
    /\ \A i, j \in 1..Len(calls) :
          i < j => StageRank(calls[i].stage) <= StageRank(calls[j].stage)
    /\ \A stage \in {"decomposition", "sql_generation", "execution",
                     "answer_generation"} : Cardinality(CallsOf(stage)) <= 1

\* The calls a request has made when it is at each position.
CallsPerPosition ==
    /\ pc \notin {"idle", "unconstructed"} =>
          Cardinality(CallsOf("decomposition")) = 1
    /\ pc \in {"retrieved", "raised"} => CallsOf("sql_generation") = {}
    /\ pc \in {"generated", "executed", "done"} =>
          Cardinality(CallsOf("sql_generation")) = 1
    /\ pc \in {"retrieved", "generated", "raised"} => CallsOf("execution") = {}
    /\ pc = "executed" => Cardinality(CallsOf("execution")) = 1
    /\ pc # "done" => CallsOf("answer_generation") = {}

\* No call is made again after it failed: a failed embedding call is the
\* last call of the request.
NoRetry ==
    \A i \in 1..Len(calls) :
        (calls[i].to = "embedding" /\ ~calls[i].ok) => i = Len(calls)

\* The four terminal outcomes of a request.
EndedRejected ==
    /\ "schema_insufficient" \in DOMAIN response
    /\ CallsOf("execution") = {} /\ CallsOf("answer_generation") = {}
EndedExecutionFailed ==
    /\ "schema_insufficient" \notin DOMAIN response
    /\ ~response.query_success
    /\ CallsOf("execution") # {} /\ CallsOf("answer_generation") = {}
EndedZeroRows ==
    /\ "schema_insufficient" \notin DOMAIN response
    /\ response.query_success /\ response.data = <<>>
    /\ CallsOf("execution") # {} /\ CallsOf("answer_generation") = {}
EndedAnswered ==
    /\ "schema_insufficient" \notin DOMAIN response
    /\ response.query_success /\ response.data # <<>>
    /\ CallsOf("execution") # {} /\ CallsOf("answer_generation") # {}

ExactlyOneOutcome ==
    Cardinality({o \in {"rejected", "failed", "zero_rows", "answered"} :
        \/ o = "rejected" /\ EndedRejected
        \/ o = "failed" /\ EndedExecutionFailed
        \/ o = "zero_rows" /\ EndedZeroRows
        \/ o = "answered" /\ EndedAnswered}) = 1

EveryCallReturned == \A i \in 1..Len(calls) : calls[i].ok

\* The request is a linear sequence of calls that ends in one outcome.
LinearRequest ==
    /\ CallsInOrder /\ CallsPerPosition /\ NoRetry
    /\ pc = "done" => ExactlyOneOutcome

\* C11: one request makes exactly one decomposition call, then the
\* embedding lookups, then exactly one SQL-synthesis call, then at most
\* one store execution, then at most one answer-generation call, in this
\* order and without a retry; and when every external call returns, the
\* request does not end in an exception but in exactly one of the four
\* terminal outcomes.
C11_LinearRequestEndsInOutcome ==
    /\ LinearRequest
    /\ (pc = "raised" => ~EveryCallReturned)

\* The step of ask from the executed statement to the response.
AnswerStep == pc = "executed" /\ pc' = "done"

\* The step called the language model for the answer.
AnswerCallMade ==
    /\ calls' # calls
    /\ calls'[Len(calls')].stage = "answer_generation"

\* The statement text is a write: it begins with INSERT, UPDATE or DELETE.
IsWrite(sql) == Len(sql) > 0 /\ sql[1] \in {"INSERT", "UPDATE", "DELETE"}

\* What ask does after an executed statement, for the results with rows,
\* without rows, and failed.
AnswerByResult ==
    /\ AnswerCallMade <=> (query_result.success /\ query_result.data # <<>>)
    /\ ~AnswerCallMade => calls' = calls
    /\ ~query_result.success =>
          /\ response'.answer = <<QueryFailedText, query_result.error>>
          /\ response'.query_success = FALSE
    /\ (query_result.success /\ query_result.data = <<>>) =>
          response'.answer = <<NoMatchText>>

C13_ModelFailureAborts ==
    \A i \in 1..Len(calls) :
        (calls[i].to = "llm" /\ ~calls[i].ok) =>
            /\ i = Len(calls)
            /\ pc = "raised"
            /\ response = <<>>

\* C14: when an embedding call of the retrieval fails, the request ends
\* there in an unhandled exception: no response, no synthesized SQL, no
\* call after the failed one, the store as it was.
C14_EmbeddingFailureAborts ==
    [][\A i \in 1..Len(calls') :
        (calls'[i].to = "embedding" /\ ~calls'[i].ok) =>
            /\ i = Len(calls')
            /\ pc' = "raised"
            /\ response' = <<>> /\ sql_query' = <<>>
            /\ query_result' = NoResult
            /\ db' = db /\ last_conn' = last_conn]_vars

\* C14 witness: the second embedding lookup of a request failed after the
\* first one had returned.
C14_Witness ==
    /\ pc = "raised"
    /\ Len(calls) = 3
    /\ calls[2] = Call("embedding", "retrieval", TRUE)
    /\ calls[3] = Call("embedding", "retrieval", FALSE)
    /\ schemas # <<>>

\* C15: when the metadata query fails or the model client cannot be made
\* during the construction, no pipeline exists.
C15_InitializationFailureIsFatal ==
    (pipeline.faults \cap {"metadata_query", "api_key", "provider"} # {}) =>
        /\ ~pipeline.constructed
        /\ pc = "unconstructed"

\* C17: the answer of every response is a non-empty text.
C17_AnswerIsNonEmpty ==
    pc = "done" =>
        /\ response.answer # <<>>
        /\ \E i \in 1..Len(response.answer) :
              ~IsSpace(response.answer[i]) /\ response.answer[i] # ""

\* The sum of the four stage durations of a performance record: durations
\* being sets of disjoint code segments, their union.
SumOfStages(p) ==
    p.retrieval_time \cup p.sql_generation_time
        \cup p.execution_time \cup p.answer_generation_time

\* No segment is counted in two stage durations.
StagesDisjoint(p) ==
    LET t == <<p.retrieval_time, p.sql_generation_time,
               p.execution_time, p.answer_generation_time>>
    IN  \A i, j \in 1..4 : i # j => t[i] \cap t[j] = {}

\* C18 as stated: total_time is the sum of the four stage durations, and
\* the duration of a stage that made no call is 0.
C18_TotalIsSumOfStages ==
    pc = "done" =>
        /\ response.performance.total_time = SumOfStages(response.performance)
        /\ CallsOf("execution") = {} =>
              response.performance.execution_time = {}
        /\ CallsOf("answer_generation") = {} =>
              response.performance.answer_generation_time = {}

\* C18, amended: total_time is measured on its own from the start of the
\* request and is at least the sum of the four stage durations; on the
\* rejection path execution_time and answer_generation_time are 0; after
\* an execution both are measured, the answer stage also when it makes no
\* model call.
C18_TotalSpansStages ==
    pc = "done" =>
        /\ StagesDisjoint(response.performance)
        /\ SumOfStages(response.performance)
              \subseteq response.performance.total_time
        /\ "other" \in response.performance.total_time
        /\ EndedRejected =>
              /\ response.performance.execution_time = {}
              /\ response.performance.answer_generation_time = {}
        /\ ~EndedRejected =>
              /\ response.performance.execution_time = {"execution"}
              /\ response.performance.answer_generation_time
                    = {"answer_generation"}

\* C18 witness: a request ended with zero rows, without a model call for
\* the answer, and its answer stage has a measured duration.
C18_Witness ==
    /\ pc = "done"
    /\ EndedZeroRows
    /\ response.performance.answer_generation_time = {"answer_generation"}
    /\ response.performance.total_time # SumOfStages(response.performance)

\* The reason text of a synthesized rejection: what follows the leading
\* marker, trimmed.
ReasonText(sql) == StripTokens(Tail(sql))

\* C19 as stated: on the rejection path the answer is the insufficiency
\* sentence followed by exactly the reason text.
C19_AnswerIsExactReason ==
    (pc = "done" /\ EndedRejected) =>
        response.answer = <<InsufficientText>> \o ReasonText(sql_query)

\* C19, amended: on the rejection path the answer is the insufficiency
\* sentence followed by the reason text with every occurrence of the
\* marker removed and trimmed, which is the reason text itself when the
\* reason does not contain the marker.
C19_AnswerIsReasonWithoutMarkers ==
    (pc = "done" /\ EndedRejected) =>
        /\ response.answer = <<InsufficientText>>
              \o StripTokens(RemoveAll(ReasonText(sql_query), InsufficientMarker))
        /\ InsufficientMarker \notin Range(ReasonText(sql_query)) =>
              response.answer = <<InsufficientText>> \o ReasonText(sql_query)

\* C19 witness: the reason of a rejection contained the marker, and the
\* answer carries the reason without it.
C19_Witness ==
    /\ pc = "done"
    /\ sql_query = <<"SCHEMA_INSUFFICIENT:", "see", "SCHEMA_INSUFFICIENT:">>
    /\ response.answer = <<InsufficientText, "see">>

-----------------------------------------------------------------------------
(* Properties of the index, checked under SpecVS.                          *)

\* C16: the stored embedding rows and the stored schema list have the same
\* length, and row i is the embedding of schema i.
C16_EmbeddingsAlignedWithSchemas ==
    /\ Len(schema_embeddings.rows) = Len(schemas)
    /\ \A i \in 1..Len(schemas) :
          schema_embeddings.rows[i] = Embedding(SchemaText(schemas[i]))

\* The position of the schema called name in the schema list.
IndexOf(name) == CHOOSE i \in 1..Len(schemas) : schemas[i] = name

\* Two schemas have equal cosine similarity to the query.
Tied(query, a, b) ==
    CosEq(Embedding(query), EmbeddingOf(a), EmbeddingOf(b))

\* C20: among schemas of equal similarity to the query,
\* retrieve_relevant_schemas (k >= 1, built index) selects and returns the
\* ones of lower original index first.
C20_TiesInSchemaOrder ==
    (/\ vs_call.op = "retrieve" /\ IndexBuilt
     /\ vs_call.top_k >= 1 /\ ~vs_call.result.raised) =>
        LET r == vs_call.result.value
            query == vs_call.arg[1]
        IN  /\ \A i, j \in 1..Len(r) :
                  (i < j /\ Tied(query, r[i], r[j])) =>
                      IndexOf(r[i]) < IndexOf(r[j])
            /\ \A a \in Range(r), b \in Range(schemas) \ Range(r) :
                  Tied(query, a, b) => IndexOf(a) < IndexOf(b)

\* No embeddings are stored: schema_embeddings is None.
IndexUnbuilt == schema_embeddings.isNone

\* C21: on an index without stored embeddings, retrieve_relevant_schemas
\* and multi_path_retrieve_schemas (for any list of dimensions) return an
\* empty sequence and do not fail.
C21_UnbuiltIndexReturnsEmpty ==
    (IndexUnbuilt /\ vs_call.op \in {"retrieve", "multi"}) =>
        vs_call.result = Returned(<<>>)

\* C22: build_embeddings with an empty list does not fail and leaves the
\* index without schemas and without embeddings, and on an index without
\* schemas every retrieval returns an empty sequence.
C22_EmptyBuildLeavesIndexEmpty ==
    /\ (vs_call.op = "build" /\ vs_call.arg = <<>>) =>
          /\ ~vs_call.result.raised
          /\ schemas = <<>>
          /\ schema_embeddings.rows = <<>>
    /\ (schemas = <<>> /\ vs_call.op \in {"retrieve", "multi"}) =>
          vs_call.result = Returned(<<>>)

\* The lines of a reply that are not blank, trimmed, in order.
TrimmedNonBlankLines(lines) ==
    LET keep == {i \in 1..Len(lines) : Strip(lines[i]) # ""}
        nth(r) == CHOOSE i \in keep : Cardinality({j \in keep : j < i}) = r - 1
    IN  [r \in 1..Cardinality(keep) |-> Strip(lines[nth(r)])]

-----------------------------------------------------------------------------
(* Properties of the store access and of the response, checked under Spec. *)

C25_DescribedStatementsLeaveNoEffect ==
    [][ExecutionStep =>
        LET out == CursorExecute(sql_query, db)
        IN  /\ db' # db => (out.error = NoneValue /\ ~out.described)
            /\ (query_result'.success /\ out.described) =>
                  /\ query_result'.data = out.rows
                  /\ db' = db]_vars

\* C25, amended: the work of every statement text that executes without an
\* error is committed, with or without a result descriptor; the rows are
\* returned when there is a descriptor; a failed text and a SELECT leave
\* the store as it was.
C25_SuccessfulStatementsAreCommitted ==
    [][ExecutionStep =>
        LET out == CursorExecute(sql_query, db)
        IN  /\ query_result'.success =>
                  /\ db' = out.work
                  /\ query_result'.data =
                        IF out.described THEN out.rows ELSE <<>>
            /\ ~query_result'.success => db' = db
            /\ (Len(sql_query) = 2 /\ sql_query[1] = "SELECT") => db' = db
            /\ (query_result'.success
                  /\ sql_query = <<"INSERT", "2", "RETURNING">>) =>
                  /\ out.described
                  /\ db["2"] = Absent /\ db'["2"] # Absent]_vars

\* C25 witness: an INSERT with RETURNING returned its row, and the row is
\* in the committed store.
C25_Witness ==
    /\ pc = "executed"
    /\ sql_query = <<"INSERT", "2", "RETURNING">>
    /\ query_result.success
    /\ query_result.data = <<RowOf(db, "2")>>
    /\ db["2"] = "7"

\* C28: the response lists the schemas the retrieval of the request
\* returned, in their order, on the rejection path and after an
\* execution; after an execution its sql_query is the synthesized string,
\* which is the string that was passed to the store.
C28_ResponseEchoesRetrievalAndSql ==
    [][/\ (pc \in {"retrieved", "generated", "executed"}) =>
             relevant_schemas' = relevant_schemas
       /\ (pc \in {"generated", "executed"}) => sql_query' = sql_query
       /\ (pc # "done" /\ pc' = "done") =>
             /\ response'.relevant_schemas = relevant_schemas
             /\ response'.question = question
       /\ ExecutionStep => query_result'.sql = sql_query
       /\ AnswerStep =>
             /\ response'.sql_query = sql_query
             /\ response'.sql_query = query_result.sql]_vars

\* C28 witness: a rejected request whose retrieval had returned three
\* schemas for two dimensions lists them, in their order.
C28_Witness ==
    /\ pc = "done"
    /\ EndedRejected
    /\ Len(relevant_schemas) = 3
    /\ response.relevant_schemas = relevant_schemas

\* What a retrieval returns when no other request runs: the loop of
\* multi_path_retrieve_schemas over its dimensions.
RetrievedAlone(req) ==
    MultiPathLoop(schemas, schema_embeddings, req.dimensions, TopKPerPath)

\* C26: no step of a request changes schemas or schema_embeddings, and
\* however the steps of concurrent requests are interleaved, each request
\* returns the schemas it would return running alone on the index, and
\* raises exactly when it would raise alone.
C26_InterleavedAsksAsSequential ==
    [][/\ schemas' = schemas
       /\ schema_embeddings' = schema_embeddings
       /\ \A r \in RequestIds :
             requests'[r].pc \in {"returned", "raised"} \ {requests[r].pc} =>
                LET alone == RetrievedAlone(requests'[r])
                IN  IF requests'[r].pc = "raised"
                    THEN alone.raised
                    ELSE /\ ~alone.raised
                         /\ requests'[r].all_retrieved_schemas = alone.value]_vars

\* C26 witness: one request has returned its schemas while the other is
\* between its two dimensions and holds a schema the first also returned.
C26_Witness ==
    /\ requests[1].pc = "returned"
    /\ Len(requests[1].all_retrieved_schemas) = 3
    /\ requests[2].pc = "looking"
    /\ Len(requests[2].dimensions) = 2
    /\ requests[2].done = 1
    /\ Range(requests[1].all_retrieved_schemas)
           \cap Range(requests[2].all_retrieved_schemas) # {}

\* An initialization has run to its end in this step.
InitializationStep == init_call.pc = "idle" /\ init_call'.pc # "idle"

\* The store after an initialization of an empty one: the four tables,
\* each with its sample rows once.
InitializedStore ==
    [tables |-> Range(InitTables),
     batches |-> [t \in Range(InitTables) |-> 1]]

\* C27: an initialization changes the store only when the students table
\* is absent, and then to the four tables with their sample rows; on a
\* store that has the students table it changes nothing; when a creation
\* or an insertion fails the store is left as it was, nothing of the
\* initialization is committed, and the error is raised.
C27_InitIdempotentAndAtomic ==
    [][InitializationStep =>
          /\ pg_catalog' # pg_catalog =>
                /\ "students" \notin pg_catalog.tables
                /\ init_call'.pc = "returned"
                /\ pg_catalog' = InitializedStore
          /\ "students" \in pg_catalog.tables => pg_catalog' = pg_catalog
          /\ init_call'.pc = "raised" => pg_catalog' = pg_catalog
          /\ ( /\ "students" \notin pg_catalog.tables
               /\ ~init_call'.refused
               /\ RunInitSteps(pg_catalog, 1, init_call'.fail_at).failed_at # 0 )
                => init_call'.pc = "raised"
          /\ ( /\ pg_catalog = InitializedStore
               /\ ~init_call'.refused )
                => init_call'.pc = "returned"]_vars

\* C27 witness: on an empty store the initialization failed at an
\* insertion, after the four tables had been created; it raised and the
\* store is still empty.
C27_Witness ==
    /\ init_call.pc = "raised"
    /\ ~init_call.refused
    /\ init_call.fail_at > Len(InitTables)
    /\ pg_catalog = EmptyStore

\* A call of save_individual_errors has returned in this step.
SaveStep == save_call.pc = "idle" /\ save_call'.pc = "returned"

\* The rows the call of this step has added to study_detail.
RowsAdded ==
    SubSeq(study_detail', Len(study_detail) + 1, Len(study_detail'))

\* The ids of the questions of the call whose answers differ, in order.
WrongIds(data) ==
    [i \in 1..Len(questions_to_vectorize(data)) |->
        questions_to_vectorize(data)[i].id]

\* C29: a call stores only questions whose student_answer differs from
\* correct_answer, and when it returns True each of them is a committed
\* row of study_detail, whatever insert the store refused.
C29_TrueMeansEveryWrongQuestionStored ==
    [][SaveStep =>
          /\ Range(RowsAdded) \subseteq Range(WrongIds(save_call'.data))
          /\ save_call'.result => RowsAdded = WrongIds(save_call'.data)]_vars

\* The first reply of the model has arrived and holds no tool call.
FirstReplyWithoutToolCall == mcp.response.tool_calls = "none"

\* The result of a tool is in the message history (lines 75-79).
ToolResultAppended == "tool" \in Range(mcp.messages)

\* C30: a call whose first reply holds no tool call ends without an
\* exception and without a tool having been called, and whenever the save
\* tool has been called the result of a tool is in the message history.
C30_DefinedOutcomeForEveryReply ==
    /\ FirstReplyWithoutToolCall =>
          /\ mcp.fault = "none"
          /\ mcp.called = <<>>
    /\ SaveTool \in Range(mcp.called) => ToolResultAppended

=============================================================================
